---- MODULE Spec2Model ----
(***************************************************************************)
(* A model of the sampler's audio engine                                   *)
(* (angular-app/src/app/services/audio-engine.ts) and of the preset        *)
(* loaders that drive it (frontend/src/hooks/usePresetLoader.ts and        *)
(* angular-app/src/app/components/pads-grid/pads-grid.ts).                 *)
(*                                                                         *)
(* Times and gains are JavaScript numbers in the source; the model uses    *)
(* integers (seconds, gain units), which is enough for every comparison,   *)
(* Math.min and Math.max the engine performs on them.  A value that is     *)
(* null in the source is 0 for object handles and <<>> for a buffer.       *)
(* Every async function is cut at its awaits: the call runs up to the      *)
(* first await, each continuation is one action.                           *)
(***************************************************************************)
EXTENDS Integers, Sequences, FiniteSets, TLC

\* ---------------------------------------------------------------- bounds
\* longest decoded buffer, in seconds
MaxDur == 2
\* samples of the preset being loaded, each with its own load in flight
MaxLoads == 2
\* bytes a response body may deliver
MaxBytes == 2
\* playback graphs created in one run
MaxPlays == 2
\* microphone streams granted in one run
MaxStreams == 2
\* chunks the recorder's chunk list may hold
MaxChunks == 1

\* ------------------------------------------------------- program constants
maxPads == 16

\* ------------------------------------------------------------ input sets
\* pad indices the callers pass: two valid ones and one beyond each end
PadArgs == {-1, 0, 1, maxPads}
\* the registry is edited on pad 0 and at the invalid indices
EditPadArgs == {-1, 0, maxPads}
InvalidPadArgs == {-1, maxPads}
Durations == 1..MaxDur
TrimArgs == (-1)..(MaxDur + 1)
\* the trim arguments tried before a play: below 0, inside, beyond every buffer
PlayTrimArgs == {-1, 1, MaxDur + 1}
GainArgs == {-1, 5}
\* the name handed to loadBuffer, and to loadSound ("" stands for null)
BufferNames == {"kick"}
\* a URL is its path split at "/", each segment a <<stem, extension>> pair
UrlKick == << <<"presets", "">>, <<"kick", "wav">> >>
UrlDir == << <<"presets", "">>, <<"", "">> >>
Urls == {UrlKick, UrlDir}
Statuses == {200, 404}
\* the content-length header of a response, 0 when it has none; the header of
\* an encoded body counts the encoded bytes, not the ones the reader delivers
ContentLengths == 0..MaxBytes

\* ------------------------------------------------------------- errors
NoError == [kind |-> "none"]
NotInitializedError == [kind |-> "AudioEngine not initialized"]
InvalidPadIndex(i) == [kind |-> "Invalid pad index"]
\* "Cannot read/set properties of undefined": pads[i] on the empty array
TypeError == [kind |-> "TypeError"]
FetchError(url, status) == [kind |-> "Failed to fetch sound", url |-> url, status |-> status]
\* the reasons decodeAudioData rejects with
DecodeErrors == {[kind |-> "EncodingError"], [kind |-> "DataCloneError"]}
PermissionError == [kind |-> "NotAllowedError"]
NotSupportedError == [kind |-> "NotSupportedError"]
NoRecordingError == [kind |-> "No recording in progress"]
\* MediaRecorder.stop() on an inactive recorder, where the platform throws
InvalidStateError == [kind |-> "InvalidStateError"]

\* ------------------------------------------------------------- helpers
Min(a, b) == IF a < b THEN a ELSE b
Max(a, b) == IF a > b THEN a ELSE b

NoBuffer == <<>>
Buffer(d) == <<d>>
Duration(b) == b[1]

ValidIndex(i) == ~(i < 0 \/ i >= maxPads)

DefaultName(i) == "Pad " \o ToString(i + 1)

EmptyPad(i) ==
  [index |-> i, buffer |-> NoBuffer, name |-> DefaultName(i), loaded |-> FALSE,
   trimStart |-> 0, trimEnd |-> 1, gain |-> 1]

\* the pad fields a load assigns
Install(pad, buffer, name) ==
  [pad EXCEPT !.buffer = buffer, !.name = name, !.loaded = TRUE,
              !.trimStart = 0, !.trimEnd = Duration(buffer), !.gain = 1]

VARIABLES
  ctx,            \* id of the AudioContext, 0 = null
  masterGain,     \* id of the context the master gain belongs to, 0 = null
  ctxCount,       \* AudioContexts constructed so far
  pads,           \* the pads array; pad i is pads[i + 1]; <<>> before initialize
  trimCall,       \* per pad: its trim points were last written by setTrimPoints
                  \* with arguments outside 0 <= start < end <= duration
  last,           \* the handler that ran last and what it threw or rejected with
  loads,          \* the loadSound / loadSoundFromURL calls in flight
  graphs,         \* the playback graphs created, in order
  mediaRecorder,  \* id of the engine's MediaRecorder, 0 = null
  mediaStream,    \* id of the engine's MediaStream, 0 = null
  recordedChunks, \* the engine's chunk list: the recorder each chunk came from
  recorders,      \* every MediaRecorder constructed, by id
  streams,        \* every MediaStream granted, by id: are its tracks live
  pendingStarts,  \* startRecording calls waiting for getUserMedia
  preset,         \* the preset load: its status and, per sample, the outcome
  progress,       \* per load slot: the reports its progress callback has received
  recordedBuffer, \* PadsGrid.recordedBuffer: the recording under analysis, <<>> = null
  presetLoads     \* the PadsGrid.loadPreset calls made, in order

engineVars == <<ctx, masterGain, ctxCount>>
padVars == <<pads, trimCall>>
recVars == <<mediaRecorder, mediaStream, recordedChunks, recorders, streams, pendingStarts>>
vars == <<ctx, masterGain, ctxCount, pads, trimCall, last, loads, graphs, mediaRecorder,
          mediaStream, recordedChunks, recorders, streams, pendingStarts, preset,
          progress, recordedBuffer, presetLoads>>
gridVars == <<recordedBuffer, presetLoads>>

HasPad(i) == (i + 1) \in DOMAIN pads
Pad(i) == pads[i + 1]
Loaded(pad) == pad.loaded /\ pad.buffer # NoBuffer

Ran(op, err) == [op |-> op, err |-> err]

IdleLoad == [pc |-> "idle"]

\* the engine after construction
EngineInit ==
  /\ ctx = 0
  /\ masterGain = 0
  /\ ctxCount = 0
  /\ pads = <<>>
  /\ last = Ran("constructor", NoError)
  /\ loads = [k \in 1..MaxLoads |-> IdleLoad]
  /\ graphs = <<>>
  /\ trimCall = [i \in 0..(maxPads - 1) |-> FALSE]
  /\ mediaRecorder = 0
  /\ mediaStream = 0
  /\ recordedChunks = <<>>
  /\ recorders = <<>>
  /\ streams = <<>>
  /\ pendingStarts = 0
  /\ preset = [status |-> "idle", samples |-> [k \in 1..MaxLoads |-> "none"]]
  /\ progress = [k \in 1..MaxLoads |-> <<>>]
  /\ presetLoads = <<>>

Init ==
  /\ EngineInit
  /\ recordedBuffer = NoBuffer

\* ------------------------------------------------------------ the registry
initializePads == [k \in 1..maxPads |-> EmptyPad(k - 1)]

\* initialize without its "already initialized" return
InitializeAgain ==
  /\ ctxCount' = ctxCount + 1
  /\ ctx' = ctxCount + 1
  /\ masterGain' = ctxCount + 1
  /\ pads' = initializePads
  /\ last' = Ran("initialize", NoError)
  /\ UNCHANGED <<gridVars, loads, graphs, trimCall, recVars, preset, progress>>

Initialize ==
  /\ IF ctx # 0
       THEN UNCHANGED <<ctx, masterGain, ctxCount, pads>>
       ELSE /\ ctxCount' = ctxCount + 1
            /\ ctx' = ctxCount + 1
            /\ masterGain' = ctxCount + 1
            /\ pads' = initializePads
  /\ last' = Ran("initialize", NoError)
  /\ UNCHANGED <<gridVars, loads, graphs, trimCall, recVars, preset, progress>>

\* loadBuffer assigning the buffer and the name but not the trim points or gain
LoadBufferKeepsTrim(i, buffer, name) ==
  /\ IF ~ValidIndex(i)
       THEN /\ last' = Ran("loadBuffer", InvalidPadIndex(i))
            /\ UNCHANGED <<pads, trimCall>>
       ELSE IF ~HasPad(i)
         THEN /\ last' = Ran("loadBuffer", TypeError)
              /\ UNCHANGED <<pads, trimCall>>
         ELSE /\ pads' = [pads EXCEPT ![i + 1] =
                     [@ EXCEPT !.buffer = buffer, !.name = name, !.loaded = TRUE]]
              /\ trimCall' = [trimCall EXCEPT ![i] = FALSE]
              /\ last' = Ran("loadBuffer", NoError)
  /\ UNCHANGED <<gridVars, engineVars, loads, graphs, recVars, preset, progress>>

\* loadBuffer returning silently when the index is invalid
LoadBufferIgnoresIndex(i, buffer, name) ==
  /\ IF ~ValidIndex(i)
       THEN /\ last' = Ran("loadBuffer", NoError)
            /\ UNCHANGED <<pads, trimCall>>
       ELSE IF ~HasPad(i)
         THEN /\ last' = Ran("loadBuffer", TypeError)
              /\ UNCHANGED <<pads, trimCall>>
         ELSE /\ pads' = [pads EXCEPT ![i + 1] = Install(@, buffer, name)]
              /\ trimCall' = [trimCall EXCEPT ![i] = FALSE]
              /\ last' = Ran("loadBuffer", NoError)
  /\ UNCHANGED <<gridVars, engineVars, loads, graphs, recVars, preset, progress>>

LoadBuffer(i, buffer, name) ==
  /\ IF ~ValidIndex(i)
       THEN /\ last' = Ran("loadBuffer", InvalidPadIndex(i))
            /\ UNCHANGED <<pads, trimCall>>
       ELSE IF ~HasPad(i)
         THEN /\ last' = Ran("loadBuffer", TypeError)
              /\ UNCHANGED <<pads, trimCall>>
         ELSE /\ pads' = [pads EXCEPT ![i + 1] = Install(@, buffer, name)]
              /\ trimCall' = [trimCall EXCEPT ![i] = FALSE]
              /\ last' = Ran("loadBuffer", NoError)
  /\ UNCHANGED <<gridVars, engineVars, loads, graphs, recVars, preset, progress>>

\* setTrimPoints storing its arguments as they come, without Math.max / Math.min
SetTrimPointsUnclamped(i, startTime, endTime) ==
  /\ IF ~ValidIndex(i) \/ ~HasPad(i) \/ ~Loaded(Pad(i))
       THEN UNCHANGED <<pads, trimCall>>
       ELSE /\ pads' = [pads EXCEPT ![i + 1] =
                   [@ EXCEPT !.trimStart = startTime, !.trimEnd = endTime]]
            /\ trimCall' = [trimCall EXCEPT ![i] =
                   ~(0 <= startTime /\ startTime < endTime
                       /\ endTime <= Duration(Pad(i).buffer))]
  /\ last' = Ran("setTrimPoints", NoError)
  /\ UNCHANGED <<gridVars, engineVars, loads, graphs, recVars, preset, progress>>

SetTrimPoints(i, startTime, endTime) ==
  /\ IF ~ValidIndex(i)
       THEN /\ last' = Ran("setTrimPoints", NoError)
            /\ UNCHANGED <<pads, trimCall>>
       ELSE IF ~HasPad(i)
         THEN /\ last' = Ran("setTrimPoints", TypeError)
              /\ UNCHANGED <<pads, trimCall>>
         ELSE IF ~Loaded(Pad(i))
           THEN /\ last' = Ran("setTrimPoints", NoError)
                /\ UNCHANGED <<pads, trimCall>>
           ELSE /\ pads' = [pads EXCEPT ![i + 1] =
                       [@ EXCEPT !.trimStart = Max(0, startTime),
                                 !.trimEnd = Min(Duration(Pad(i).buffer), endTime)]]
                /\ trimCall' = [trimCall EXCEPT ![i] =
                       ~(0 <= startTime /\ startTime < endTime
                           /\ endTime <= Duration(Pad(i).buffer))]
                /\ last' = Ran("setTrimPoints", NoError)
  /\ UNCHANGED <<gridVars, engineVars, loads, graphs, recVars, preset, progress>>

\* setGain storing its argument as it comes, without Math.max / Math.min
SetGainUnclamped(i, gain) ==
  /\ IF ~ValidIndex(i) \/ ~HasPad(i)
       THEN UNCHANGED pads
       ELSE pads' = [pads EXCEPT ![i + 1] = [@ EXCEPT !.gain = gain]]
  /\ last' = Ran("setGain", NoError)
  /\ UNCHANGED <<gridVars, engineVars, loads, graphs, trimCall, recVars, preset, progress>>

SetGain(i, gain) ==
  /\ IF ~ValidIndex(i)
       THEN /\ last' = Ran("setGain", NoError)
            /\ UNCHANGED pads
       ELSE IF ~HasPad(i)
         THEN /\ last' = Ran("setGain", TypeError)
              /\ UNCHANGED pads
         ELSE /\ pads' = [pads EXCEPT ![i + 1] = [@ EXCEPT !.gain = Max(0, Min(2, gain))]]
              /\ last' = Ran("setGain", NoError)
  /\ UNCHANGED <<gridVars, engineVars, loads, graphs, trimCall, recVars, preset, progress>>

ResetPad(i) ==
  /\ IF ~ValidIndex(i)
       THEN /\ last' = Ran("resetPad", NoError)
            /\ UNCHANGED <<pads, trimCall>>
       ELSE IF ~HasPad(i)
         THEN /\ last' = Ran("resetPad", TypeError)
              /\ UNCHANGED <<pads, trimCall>>
         ELSE IF Loaded(Pad(i))
           THEN /\ pads' = [pads EXCEPT ![i + 1] =
                       [@ EXCEPT !.trimStart = 0, !.trimEnd = Duration(Pad(i).buffer), !.gain = 1]]
                /\ trimCall' = [trimCall EXCEPT ![i] = FALSE]
                /\ last' = Ran("resetPad", NoError)
           ELSE /\ last' = Ran("resetPad", NoError)
                /\ UNCHANGED <<pads, trimCall>>
  /\ UNCHANGED <<gridVars, engineVars, loads, graphs, recVars, preset, progress>>

\* clearPad dropping the buffer but leaving the loaded flag alone
ClearedKeepsLoaded(ps, i) ==
  [ps EXCEPT ![i + 1] = [@ EXCEPT !.buffer = NoBuffer, !.trimStart = 0,
                                  !.trimEnd = 1, !.gain = 1, !.name = DefaultName(i)]]

\* clearPad leaving the name the pad had
ClearedKeepsName(ps, i) ==
  [ps EXCEPT ![i + 1] = [@ EXCEPT !.buffer = NoBuffer, !.loaded = FALSE, !.trimStart = 0,
                                  !.trimEnd = 1, !.gain = 1]]

\* the pads array after clearPad(i), when pads[i] exists
Cleared(ps, i) ==
  [ps EXCEPT ![i + 1] = [@ EXCEPT !.buffer = NoBuffer, !.loaded = FALSE, !.trimStart = 0,
                                  !.trimEnd = 1, !.gain = 1, !.name = DefaultName(i)]]

ClearPad(i) ==
  /\ IF ~ValidIndex(i)
       THEN /\ last' = Ran("clearPad", NoError)
            /\ UNCHANGED <<pads, trimCall>>
       ELSE IF ~HasPad(i)
         THEN /\ last' = Ran("clearPad", TypeError)
              /\ UNCHANGED <<pads, trimCall>>
         ELSE /\ pads' = Cleared(pads, i)
              /\ trimCall' = [trimCall EXCEPT ![i] = FALSE]
              /\ last' = Ran("clearPad", NoError)
  /\ UNCHANGED <<gridVars, engineVars, loads, graphs, recVars, preset, progress>>

RECURSIVE ClearFrom(_, _)
\* pads.forEach((_, index) => this.clearPad(index)), from index i on
ClearFrom(ps, i) == IF i >= Len(ps) THEN ps ELSE ClearFrom(Cleared(ps, i), i + 1)

ClearAll ==
  /\ pads' = ClearFrom(pads, 0)
  /\ trimCall' = [i \in 0..(maxPads - 1) |-> IF HasPad(i) THEN FALSE ELSE trimCall[i]]
  /\ last' = Ran("clearAll", NoError)
  /\ UNCHANGED <<gridVars, engineVars, loads, graphs, recVars, preset, progress>>

\* ------------------------------------------------------------ the loader
\* A call that settles frees its slot; what it settled with is in last: the
\* slot, the pad index it was given, the error it rejected with and the reason
\* the platform gave (the response status, or the decoder's own error).
Settled(op, k, i, err, reason) ==
  [op |-> op, err |-> err, load |-> k, pad |-> i, reason |-> reason]

\* url.split('/').pop()?.replace(/\.[^/.]+$/, '') || 'sound'
FileName(url) ==
  LET segment == url[Len(url)]
  IN IF segment[1] = "" THEN "sound" ELSE segment[1]

\* One call of a progress callback: the percentage it was given, as the
\* fraction num / den, and the bytes the load had received by then.
Report(bytes, num, den) == [bytes |-> bytes, num |-> num, den |-> den]

\* loadSound up to its await of decodeAudioData; received is the number of
\* bytes loadSoundFromURL has read, 0 when loadSound is called directly
LoadSoundEnter(k, i, name, callback, received, op) ==
  IF ctx = 0
    THEN /\ last' = Settled(op, k, i, NotInitializedError, 0)
         /\ loads' = [loads EXCEPT ![k] = IdleLoad]
    ELSE IF ~ValidIndex(i)
      THEN /\ last' = Settled(op, k, i, InvalidPadIndex(i), 0)
           /\ loads' = [loads EXCEPT ![k] = IdleLoad]
      ELSE /\ last' = Ran(op, NoError)
           /\ loads' = [loads EXCEPT ![k] =
                  [pc |-> "decode", pad |-> i, name |-> name, callback |-> callback,
                   receivedLength |-> received]]

LoadSoundCall(k, i, name, callback) ==
  /\ loads[k].pc = "idle"
  /\ LoadSoundEnter(k, i, name, callback, 0, "loadSound")
  /\ progress' = [progress EXCEPT ![k] = <<>>]
  /\ UNCHANGED <<gridVars, engineVars, padVars, graphs, recVars, preset>>

\* decodeAudioData resolves with a buffer of duration d: the pad is installed,
\* then the callback, if there is one, is given 100
DecodeResolved(k, d) ==
  /\ loads[k].pc = "decode"
  /\ LET i == loads[k].pad
         name == IF loads[k].name = "" THEN DefaultName(i) ELSE loads[k].name
     IN /\ pads' = [pads EXCEPT ![i + 1] = Install(@, Buffer(d), name)]
        /\ trimCall' = [trimCall EXCEPT ![i] = FALSE]
        /\ last' = Settled("loadSound.resolved", k, i, NoError, d)
  /\ progress' = IF loads[k].callback
                   THEN [progress EXCEPT ![k] =
                           Append(@, Report(loads[k].receivedLength, 100, 1))]
                   ELSE progress
  /\ loads' = [loads EXCEPT ![k] = IdleLoad]
  /\ UNCHANGED <<gridVars, engineVars, graphs, recVars, preset>>

\* a failed decode that also empties the pad it was meant for
DecodeRejectedClearsPad(k, e) ==
  /\ loads[k].pc = "decode"
  /\ loads' = [loads EXCEPT ![k] = IdleLoad]
  /\ pads' = Cleared(pads, loads[k].pad)
  /\ last' = Settled("loadSound.rejected", k, loads[k].pad, e, e)
  /\ UNCHANGED <<gridVars, engineVars, trimCall, graphs, recVars, preset, progress>>

\* decodeAudioData rejects with e: the error is logged and rethrown
DecodeRejected(k, e) ==
  /\ loads[k].pc = "decode"
  /\ loads' = [loads EXCEPT ![k] = IdleLoad]
  /\ last' = Settled("loadSound.rejected", k, loads[k].pad, e, e)
  /\ UNCHANGED <<gridVars, engineVars, padVars, graphs, recVars, preset, progress>>

\* loadSoundFromURL up to its await of fetch
LoadSoundFromURLCall(k, i, url, callback) ==
  /\ loads[k].pc = "idle"
  /\ IF ctx = 0
       THEN /\ last' = Settled("loadSoundFromURL", k, i, NotInitializedError, 0)
            /\ UNCHANGED loads
       ELSE /\ last' = Ran("loadSoundFromURL", NoError)
            /\ loads' = [loads EXCEPT ![k] =
                   [pc |-> "fetch", pad |-> i, url |-> url, callback |-> callback]]
  /\ progress' = [progress EXCEPT ![k] = <<>>]
  /\ UNCHANGED <<gridVars, engineVars, padVars, graphs, recVars, preset>>

\* a response that is not ok abandoning every load in flight, not only its own
FetchResponseAbortsAll(k, status, contentLength) ==
  /\ loads[k].pc = "fetch"
  /\ IF ~(status >= 200 /\ status <= 299)
       THEN /\ last' = Settled("loadSoundFromURL.rejected", k, loads[k].pad,
                               FetchError(loads[k].url, status), status)
            /\ loads' = [j \in DOMAIN loads |-> IdleLoad]
       ELSE /\ last' = Ran("loadSoundFromURL.response", NoError)
            /\ loads' = [loads EXCEPT ![k] =
                   [pc |-> "read", pad |-> loads[k].pad, url |-> loads[k].url,
                    callback |-> loads[k].callback, contentLength |-> contentLength,
                    receivedLength |-> 0]]
  /\ UNCHANGED <<gridVars, engineVars, padVars, graphs, recVars, preset, progress>>

\* fetch resolves with a response of the given status and content-length
FetchResponse(k, status, contentLength) ==
  /\ loads[k].pc = "fetch"
  /\ IF ~(status >= 200 /\ status <= 299)
       THEN /\ last' = Settled("loadSoundFromURL.rejected", k, loads[k].pad,
                               FetchError(loads[k].url, status), status)
            /\ loads' = [loads EXCEPT ![k] = IdleLoad]
       ELSE /\ last' = Ran("loadSoundFromURL.response", NoError)
            /\ loads' = [loads EXCEPT ![k] =
                   [pc |-> "read", pad |-> loads[k].pad, url |-> loads[k].url,
                    callback |-> loads[k].callback, contentLength |-> contentLength,
                    receivedLength |-> 0]]
  /\ UNCHANGED <<gridVars, engineVars, padVars, graphs, recVars, preset, progress>>

\* reader.read() resolves with a chunk of n bytes, n > 0; with a callback and
\* a content-length header the callback is given received / contentLength * 100
ReadChunk(k, n) ==
  /\ loads[k].pc = "read"
  /\ loads[k].receivedLength + n <= MaxBytes
  /\ loads' = [loads EXCEPT ![k].receivedLength = @ + n]
  /\ progress' = IF loads[k].callback /\ loads[k].contentLength # 0
                   THEN [progress EXCEPT ![k] =
                           Append(@, Report(loads[k].receivedLength + n,
                                            (loads[k].receivedLength + n) * 100,
                                            loads[k].contentLength))]
                   ELSE progress
  /\ last' = Ran("loadSoundFromURL.chunk", NoError)
  /\ UNCHANGED <<gridVars, engineVars, padVars, graphs, recVars, preset>>

\* reader.read() resolves with done: the chunks are joined and handed to loadSound
ReadDone(k) ==
  /\ loads[k].pc = "read"
  /\ LoadSoundEnter(k, loads[k].pad, FileName(loads[k].url), loads[k].callback,
                    loads[k].receivedLength, "loadSoundFromURL.done")
  /\ UNCHANGED <<gridVars, engineVars, padVars, graphs, recVars, preset, progress>>

\* ---------------------------------------------------------- the dispatcher
\* _playBuffer handing the trim points to source.start as they are stored
PlayBufferUnclamped(buffer, startTime, endTime, gain) ==
  [buffer |-> buffer, gain |-> gain, destination |-> masterGain,
   offset |-> startTime, duration |-> endTime - startTime]

PlayBuffer(buffer, startTime, endTime, gain) ==
  LET clampedStart == Max(0, Min(startTime, Duration(buffer)))
      clampedEnd == Max(clampedStart, Min(endTime, Duration(buffer)))
  IN [buffer |-> buffer, gain |-> gain, destination |-> masterGain,
      offset |-> clampedStart, duration |-> clampedEnd - clampedStart]

\* play without its "pad is not loaded" return
PlayUnchecked(i) ==
  /\ IF ctx = 0 \/ masterGain = 0 \/ ~ValidIndex(i)
       THEN UNCHANGED graphs
       ELSE /\ Len(graphs) < MaxPlays
            /\ graphs' = Append(graphs,
                   [buffer |-> Pad(i).buffer, gain |-> Pad(i).gain,
                    destination |-> masterGain, offset |-> 0, duration |-> 0])
  /\ last' = [op |-> "play", err |-> NoError, pad |-> i]
  /\ UNCHANGED <<gridVars, engineVars, padVars, loads, recVars, preset, progress>>

\* play throwing on an invalid index, as the loads do
PlayThrowsOnIndex(i) ==
  /\ IF ctx = 0 \/ masterGain = 0 \/ ~ValidIndex(i) \/ ~Loaded(Pad(i))
       THEN UNCHANGED graphs
       ELSE /\ Len(graphs) < MaxPlays
            /\ graphs' = Append(graphs,
                   PlayBuffer(Pad(i).buffer, Pad(i).trimStart, Pad(i).trimEnd, Pad(i).gain))
  /\ last' = [op |-> "play",
              err |-> IF ctx # 0 /\ ~ValidIndex(i) THEN InvalidPadIndex(i) ELSE NoError,
              pad |-> i]
  /\ UNCHANGED <<gridVars, engineVars, padVars, loads, recVars, preset, progress>>

\* play putting its graph in the place of the one created last
PlayReusesGraph(i) ==
  /\ IF ctx = 0 \/ masterGain = 0 \/ ~ValidIndex(i) \/ ~Loaded(Pad(i))
       THEN UNCHANGED graphs
       ELSE LET g == PlayBuffer(Pad(i).buffer, Pad(i).trimStart, Pad(i).trimEnd, Pad(i).gain)
            IN graphs' = IF graphs = <<>> THEN <<g>>
                         ELSE [graphs EXCEPT ![Len(graphs)] = g]
  /\ last' = [op |-> "play", err |-> NoError, pad |-> i]
  /\ UNCHANGED <<gridVars, engineVars, padVars, loads, recVars, preset, progress>>

Play(i) ==
  /\ IF ctx = 0 \/ masterGain = 0
       THEN UNCHANGED graphs
       ELSE IF ~ValidIndex(i)
         THEN UNCHANGED graphs
         ELSE IF ~Loaded(Pad(i))
           THEN UNCHANGED graphs
           ELSE /\ Len(graphs) < MaxPlays
                /\ graphs' = Append(graphs,
                       PlayBuffer(Pad(i).buffer, Pad(i).trimStart, Pad(i).trimEnd, Pad(i).gain))
  /\ last' = [op |-> "play", err |-> NoError, pad |-> i]
  /\ UNCHANGED <<gridVars, engineVars, padVars, loads, recVars, preset, progress>>

\* ------------------------------------------------------------ the recorder
\* A MediaRecorder: the stream it records, its state attribute, the events its
\* stop() has queued ("data": the final dataavailable, then "stop"), whether
\* stopRecording has set its onstop handler, where that handler is, and the
\* chunks the handler put in its blob.
NewRecorder(stream) ==
  [stream |-> stream, state |-> "recording", events |-> "none", onstop |-> FALSE,
   pc |-> "none", blob |-> <<>>]

isRecording == mediaRecorder # 0 /\ recorders[mediaRecorder].state = "recording"

\* stream.getTracks().forEach((track) => track.stop()), for this.mediaStream
TracksStopped(stream) ==
  IF stream = 0 THEN streams ELSE [streams EXCEPT ![stream] = FALSE]

\* startRecording up to its await of getUserMedia
StartRecordingCall ==
  /\ IF ctx = 0
       THEN /\ last' = Ran("startRecording", NotInitializedError)
            /\ UNCHANGED pendingStarts
       ELSE /\ Len(streams) + pendingStarts < MaxStreams
            /\ pendingStarts' = pendingStarts + 1
            /\ last' = Ran("startRecording", NoError)
  /\ UNCHANGED <<gridVars, engineVars, padVars, loads, graphs, preset, progress>>
  /\ UNCHANGED <<mediaRecorder, mediaStream, recordedChunks, recorders, streams>>

\* getUserMedia rejects: the error is logged and rethrown
PermissionDenied ==
  /\ pendingStarts > 0
  /\ pendingStarts' = pendingStarts - 1
  /\ last' = Ran("startRecording.rejected", PermissionError)
  /\ UNCHANGED <<gridVars, engineVars, padVars, loads, graphs, preset, progress>>
  /\ UNCHANGED <<mediaRecorder, mediaStream, recordedChunks, recorders, streams>>

\* getUserMedia resolves with a new stream; the MediaRecorder constructor
\* throws where the platform does not record audio/webm;codecs=opus
PermissionGranted(supported) ==
  /\ pendingStarts > 0
  /\ pendingStarts' = pendingStarts - 1
  /\ streams' = Append(streams, TRUE)
  /\ mediaStream' = Len(streams) + 1
  /\ recordedChunks' = <<>>
  /\ IF supported
       THEN /\ recorders' = Append(recorders, NewRecorder(Len(streams) + 1))
            /\ mediaRecorder' = Len(recorders) + 1
            /\ last' = Ran("startRecording.resolved", NoError)
       ELSE /\ UNCHANGED <<recorders, mediaRecorder>>
            /\ last' = Ran("startRecording.rejected", NotSupportedError)
  /\ UNCHANGED <<gridVars, engineVars, padVars, loads, graphs, preset, progress>>

\* a dataavailable event of recorder r: one of the 100 ms slices while it
\* records, or the last one its stop() queued; ondataavailable keeps a blob
\* that is not empty in the engine's current chunk list
DataAvailable(r, size) ==
  /\ recorders[r].state = "recording" \/ recorders[r].events = "data"
  /\ IF size > 0
       THEN /\ Len(recordedChunks) < MaxChunks
            /\ recordedChunks' = Append(recordedChunks, r)
       ELSE UNCHANGED recordedChunks
  /\ recorders' = IF recorders[r].events = "data"
                    THEN [recorders EXCEPT ![r].events = "stop"]
                    ELSE recorders
  /\ last' = Ran("MediaRecorder.ondataavailable", NoError)
  /\ UNCHANGED <<gridVars, engineVars, padVars, loads, graphs, preset, progress>>
  /\ UNCHANGED <<mediaRecorder, mediaStream, streams, pendingStarts>>

\* stopRecording: the checks, the onstop handler, mediaRecorder.stop().
\* stop() on a recorder that is already inactive returns or throws, by platform.
StopRecordingCall(throws) ==
  /\ IF ctx = 0
       THEN /\ last' = Ran("stopRecording", NotInitializedError)
            /\ UNCHANGED recorders
       ELSE IF mediaRecorder = 0
         THEN /\ last' = Ran("stopRecording", NoRecordingError)
              /\ UNCHANGED recorders
         ELSE IF recorders[mediaRecorder].state = "recording"
           THEN /\ recorders' = [recorders EXCEPT ![mediaRecorder] =
                       [@ EXCEPT !.onstop = TRUE, !.state = "inactive", !.events = "data"]]
                /\ last' = Ran("stopRecording", NoError)
           ELSE /\ recorders' = [recorders EXCEPT ![mediaRecorder].onstop = TRUE]
                /\ last' = Ran("stopRecording",
                               IF throws THEN InvalidStateError ELSE NoError)
  /\ UNCHANGED <<gridVars, engineVars, padVars, loads, graphs, preset, progress>>
  /\ UNCHANGED <<mediaRecorder, mediaStream, recordedChunks, streams, pendingStarts>>

\* the stop event of recorder r; the onstop handler up to its first await
StopEvent(r) ==
  /\ recorders[r].events = "stop"
  /\ IF recorders[r].onstop
       THEN /\ streams' = TracksStopped(mediaStream)
            /\ recorders' = [recorders EXCEPT ![r] =
                   [@ EXCEPT !.events = "done", !.pc = "decode", !.blob = recordedChunks]]
       ELSE /\ recorders' = [recorders EXCEPT ![r].events = "done"]
            /\ UNCHANGED streams
  /\ last' = Ran("MediaRecorder.onstop", NoError)
  /\ UNCHANGED <<gridVars, engineVars, padVars, loads, graphs, preset, progress>>
  /\ UNCHANGED <<mediaRecorder, mediaStream, recordedChunks, pendingStarts>>

\* the handler's decodeAudioData resolves: the recording state is reset
StopDecodeResolved(r) ==
  /\ recorders[r].pc = "decode"
  /\ recorders[r].blob # <<>>
  /\ recorders' = [recorders EXCEPT ![r].pc = "none"]
  /\ mediaRecorder' = 0
  /\ mediaStream' = 0
  /\ recordedChunks' = <<>>
  /\ last' = [op |-> "stopRecording.resolved", err |-> NoError, recorder |-> r]
  /\ UNCHANGED <<gridVars, engineVars, padVars, loads, graphs, preset, progress>>
  /\ UNCHANGED <<streams, pendingStarts>>

\* the handler's decodeAudioData rejects (it always does for an empty blob):
\* the catch block rejects the caller's promise and does nothing else
StopDecodeRejected(r, e) ==
  /\ recorders[r].pc = "decode"
  /\ recorders' = [recorders EXCEPT ![r].pc = "none"]
  /\ last' = [op |-> "stopRecording.rejected", err |-> e, recorder |-> r]
  /\ UNCHANGED <<gridVars, engineVars, padVars, loads, graphs, preset, progress>>
  /\ UNCHANGED <<mediaRecorder, mediaStream, recordedChunks, streams, pendingStarts>>

CancelRecording ==
  /\ recorders' = IF mediaRecorder # 0 /\ recorders[mediaRecorder].state # "inactive"
                    THEN [recorders EXCEPT ![mediaRecorder] =
                            [@ EXCEPT !.state = "inactive", !.events = "data"]]
                    ELSE recorders
  /\ streams' = TracksStopped(mediaStream)
  /\ mediaRecorder' = 0
  /\ mediaStream' = 0
  /\ recordedChunks' = <<>>
  /\ last' = Ran("cancelRecording", NoError)
  /\ UNCHANGED <<gridVars, engineVars, padVars, loads, graphs, preset, progress, pendingStarts>>

\* ------------------------------------------------------ the preset loader
\* the preset being loaded: sample k goes to pad k - 1
PresetUrls == [k \in 1..MaxLoads |-> IF k % 2 = 1 THEN UrlKick ELSE UrlDir]
PresetNames == [k \in 1..MaxLoads |-> IF k = 1 THEN "kick" ELSE ""]

\* soundURLs.map(async (url, index) => ...): every sample's loadSoundFromURL is
\* issued before any of them continues
LoadPresetSounds ==
  /\ preset.status = "idle"
  /\ IF ctx = 0
       THEN /\ preset' = [status |-> "error", samples |-> [k \in 1..MaxLoads |-> "failed"]]
            /\ UNCHANGED loads
       ELSE /\ preset' = [status |-> "loading", samples |-> [k \in 1..MaxLoads |-> "pending"]]
            /\ loads' = [k \in 1..MaxLoads |->
                           [pc |-> "fetch", pad |-> k - 1, url |-> PresetUrls[k],
                            callback |-> TRUE]]
  /\ last' = Ran("loadPresetSounds", NoError)
  /\ progress' = [k \in 1..MaxLoads |-> <<>>]
  /\ UNCHANGED <<gridVars, engineVars, padVars, graphs, recVars>>

\* the load of sample k has just settled and its caller has not yet continued
SettledSample(k) ==
  /\ preset.samples[k] = "pending"
  /\ "load" \in DOMAIN last
  /\ last.load = k

\* the try / catch around one sample's load, and Promise.allSettled after it
SampleContinue(k) ==
  /\ SettledSample(k)
  /\ LET outcome == IF last.err = NoError THEN "ok" ELSE "failed"
         samples == [preset.samples EXCEPT ![k] = outcome]
         status == IF \E j \in 1..MaxLoads : samples[j] = "pending" THEN "loading"
                   ELSE IF \E j \in 1..MaxLoads : samples[j] = "ok" THEN "success"
                   ELSE "error"
         soundName == IF PresetNames[k] = "" THEN "Sound " \o ToString(k) ELSE PresetNames[k]
     IN /\ preset' = [status |-> status, samples |-> samples]
        /\ pads' = IF outcome = "ok"
                     THEN [pads EXCEPT ![k] = [@ EXCEPT !.name = soundName]]
                     ELSE pads
        /\ last' = [op |-> "loadPresetSounds.sample", err |-> last.err, sample |-> k]
  /\ UNCHANGED <<gridVars, engineVars, trimCall, loads, graphs, recVars, progress>>

\* ------------------------------------------------------- specifications
\* setTrimPoints with an invalid index returns before it reads its other
\* arguments: one pair of them is enough there
Registry ==
  \/ \E i \in EditPadArgs, d \in Durations, n \in BufferNames : LoadBuffer(i, Buffer(d), n)
  \/ \E i \in EditPadArgs, s \in TrimArgs, e \in TrimArgs :
       /\ ValidIndex(i) \/ (s = 0 /\ e = 1)
       /\ SetTrimPoints(i, s, e)
  \/ \E i \in EditPadArgs, g \in GainArgs : SetGain(i, g)
  \/ \E i \in EditPadArgs : ResetPad(i)
  \/ \E i \in EditPadArgs : ClearPad(i)
  \/ ClearAll

\* callbacks: is a progress callback passed; lengths: the content-length headers
Loader(slots, padArgs, names, urls, callbacks, lengths) ==
  \/ \E k \in slots, i \in padArgs, n \in names, cb \in callbacks : LoadSoundCall(k, i, n, cb)
  \/ \E k \in slots, d \in Durations : DecodeResolved(k, d)
  \/ \E k \in slots, e \in DecodeErrors : DecodeRejected(k, e)
  \/ \E k \in slots, i \in padArgs, u \in urls, cb \in callbacks :
       LoadSoundFromURLCall(k, i, u, cb)
  \/ \E k \in slots, st \in Statuses, n \in lengths : FetchResponse(k, st, n)
  \/ \E k \in slots, n \in 1..MaxBytes : ReadChunk(k, n)
  \/ \E k \in slots : ReadDone(k)

\* the registry and one load at a time, on pad 0 and the invalid indices
Next ==
  \/ Initialize
  \/ Registry
  \/ Loader({1}, EditPadArgs, {""}, {UrlKick}, {FALSE}, {0})

Spec == Init /\ [][Next]_vars

\* loads of one URL, plays, direct assignments and clears on two pads
LoadPadArgs == {0, 1}

NextLoad ==
  \/ Initialize
  \/ \E i \in LoadPadArgs, d \in Durations, n \in BufferNames : LoadBuffer(i, Buffer(d), n)
  \/ \E i \in LoadPadArgs : ClearPad(i)
  \/ ClearAll
  \/ Loader({1}, LoadPadArgs, {""}, {UrlKick}, {FALSE}, {0})
  \/ \E i \in PadArgs : Play(i)

SpecLoad == Init /\ [][NextLoad]_vars

\* one preset load on a fresh engine; a sample's caller continues in the
\* microtask right after its load settles, before any other event is handled
NoContinuation == ~\E j \in 1..MaxLoads : SettledSample(j)

NextPreset ==
  \/ NoContinuation /\ Initialize
  \/ NoContinuation /\ LoadPresetSounds
  \/ \E k \in 1..MaxLoads : SampleContinue(k)
  \/ \E k \in 1..MaxLoads, st \in Statuses : NoContinuation /\ FetchResponse(k, st, 0)
  \/ \E k \in 1..MaxLoads, n \in 1..MaxBytes : NoContinuation /\ ReadChunk(k, n)
  \/ \E k \in 1..MaxLoads : NoContinuation /\ ReadDone(k)
  \/ \E k \in 1..MaxLoads, d \in Durations : NoContinuation /\ DecodeResolved(k, d)
  \/ \E k \in 1..MaxLoads, e \in DecodeErrors : NoContinuation /\ DecodeRejected(k, e)

SpecPreset == Init /\ [][NextPreset]_vars

\* trims and plays of pad 0, loaded with the longest buffer, and every operation
\* at the invalid indices
NextPlay ==
  \/ Initialize
  \/ \E i \in EditPadArgs, n \in BufferNames : LoadBuffer(i, Buffer(MaxDur), n)
  \/ \E i \in EditPadArgs, s \in PlayTrimArgs, e \in PlayTrimArgs :
       /\ ValidIndex(i) \/ (s = 1 /\ e = 1)
       /\ SetTrimPoints(i, s, e)
  \/ \E i \in InvalidPadArgs, g \in GainArgs : SetGain(i, g)
  \/ \E i \in InvalidPadArgs : LoadSoundCall(1, i, "", FALSE)
  \/ \E i \in PadArgs : Play(i)

SpecPlay == Init /\ [][NextPlay]_vars

\* one load at a time into pad 0, with and without a progress callback, from
\* responses with and without a content-length header
NextProgress ==
  \/ Initialize
  \/ Loader({1}, {0}, {""}, {UrlKick}, BOOLEAN, ContentLengths)

SpecProgress == Init /\ [][NextProgress]_vars

\* the microphone recorder
NextRec ==
  \/ Initialize
  \/ StartRecordingCall
  \/ PermissionDenied
  \/ \E supported \in BOOLEAN : PermissionGranted(supported)
  \/ \E r \in DOMAIN recorders, size \in {0, 1} : DataAvailable(r, size)
  \/ \E throws \in BOOLEAN : StopRecordingCall(throws)
  \/ \E r \in DOMAIN recorders : StopEvent(r)
  \/ \E r \in DOMAIN recorders : StopDecodeResolved(r)
  \/ \E r \in DOMAIN recorders, e \in DecodeErrors : StopDecodeRejected(r, e)
  \/ CancelRecording

SpecRec == Init /\ [][NextRec]_vars

\* ------------------------------------------------------------ properties
TrimInRange(pad) ==
  /\ 0 <= pad.trimStart
  /\ pad.trimStart < pad.trimEnd
  /\ pad.trimEnd <= Duration(pad.buffer)

\* C1 as stated: whatever arguments setTrimPoints was given, every loaded pad
\* has 0 <= trimStart < trimEnd <= buffer.duration.
C1_TrimInvariantAnyArgs ==
  \A k \in DOMAIN pads : Loaded(pads[k]) => TrimInRange(pads[k])

\* C1 amended: every loaded pad has 0 <= trimStart and trimEnd <= duration, and
\* also trimStart < trimEnd unless its trim points were last written by a
\* setTrimPoints call whose arguments were not 0 <= start < end <= duration.
C1_TrimInvariantValidArgs ==
  \A k \in DOMAIN pads :
    Loaded(pads[k]) =>
      /\ 0 <= pads[k].trimStart
      /\ pads[k].trimEnd <= Duration(pads[k].buffer)
      /\ ~trimCall[k - 1] => TrimInRange(pads[k])

C1_Witness ==
  /\ last.op = "setTrimPoints"
  /\ HasPad(0)
  /\ Loaded(Pad(0))
  /\ ~trimCall[0]
  /\ Pad(0).trimStart = 1
  /\ Pad(0).trimEnd = 2

\* C2: the step in which a load fails changes no pad; a response that is not
\* ok is rejected with an error carrying that response's status and the URL
\* that was requested, and a failed decode is rejected with the decoder's error.
C2_FailedLoadLeavesPads ==
  [][/\ last'.op = "loadSoundFromURL.rejected" =>
          /\ pads' = pads
          /\ ~(last'.reason >= 200 /\ last'.reason <= 299)
          /\ last'.err.kind = "Failed to fetch sound"
          /\ last'.err.status = last'.reason
          /\ last'.err.url = loads[last'.load].url
     /\ last'.op = "loadSound.rejected" =>
          /\ pads' = pads
          /\ last'.reason \in DecodeErrors
          /\ last'.err = last'.reason]_vars

C2_Witness ==
  /\ last.op \in {"loadSoundFromURL.rejected", "loadSound.rejected"}
  /\ last.pad = 0
  /\ Loaded(Pad(0))
  /\ Pad(0).trimStart = 1

\* C3: in a preset load, whatever the order in which the samples' responses,
\* chunks and decodes arrive, a sample that loaded has its pad fully loaded
\* (buffer, loaded, trim (0, duration), gain 1), a sample that failed has its pad
\* still empty, and a sample not yet settled still has its load in flight.
C3_IndependentLoads ==
  \A k \in 1..MaxLoads :
    /\ preset.samples[k] = "ok" =>
         /\ Pad(k - 1).loaded
         /\ Pad(k - 1).buffer # NoBuffer
         /\ Pad(k - 1).trimStart = 0
         /\ Pad(k - 1).trimEnd = Duration(Pad(k - 1).buffer)
         /\ Pad(k - 1).gain = 1
    /\ (preset.samples[k] = "failed" /\ ctx # 0) => Pad(k - 1) = EmptyPad(k - 1)
    /\ preset.samples[k] = "pending" => (loads[k].pc # "idle" \/ SettledSample(k))

C3_Witness ==
  /\ preset.status = "success"
  /\ \E j, k \in 1..MaxLoads :
       /\ preset.samples[j] = "failed"
       /\ preset.samples[k] = "ok"
       /\ Pad(j - 1) = EmptyPad(j - 1)
       /\ Pad(k - 1).loaded

\* a load of pad i has been issued and has not settled
LoadInFlight(i) == \E k \in DOMAIN loads : loads[k].pc # "idle" /\ loads[k].pad = i

PadLoaded(i) == ValidIndex(i) /\ HasPad(i) /\ Loaded(Pad(i))

\* C4 as stated: play(i) during a load of pad i creates no node and throws
\* nothing, whatever pad i held when the load was started.
C4_PlayDuringLoadIsNoOp ==
  [][(last'.op = "play" /\ LoadInFlight(last'.pad)) =>
       /\ graphs' = graphs
       /\ last'.err = NoError]_vars

\* C4 amended: play(i) during a load of pad i throws nothing; it creates no
\* node when pad i is not loaded at that moment, and starts the buffer pad i
\* still holds from an earlier load otherwise.
C4_PlayDuringLoadOfUnloadedPad ==
  [][(last'.op = "play" /\ LoadInFlight(last'.pad)) =>
       /\ last'.err = NoError
       /\ pads' = pads
       /\ loads' = loads
       /\ ~PadLoaded(last'.pad) => graphs' = graphs
       /\ PadLoaded(last'.pad) =>
            /\ Len(graphs') = Len(graphs) + 1
            /\ graphs'[Len(graphs')].buffer = Pad(last'.pad).buffer]_vars

C4_Witness ==
  /\ last.op = "play"
  /\ ctx # 0
  /\ LoadInFlight(last.pad)
  /\ ~PadLoaded(last.pad)
  /\ graphs = <<>>

\* C5 as stated: at most one recorder is recording, it is the one the engine
\* holds, and no stream is live that the engine does not hold.
C5_SingleCapture ==
  /\ Cardinality({r \in DOMAIN recorders : recorders[r].state = "recording"}) <= 1
  /\ \A r \in DOMAIN recorders : recorders[r].state = "recording" => r = mediaRecorder
  /\ \A st \in DOMAIN streams : streams[st] => st = mediaStream

\* C6 as stated: when stopRecording settles, resolved or rejected, the tracks
\* of the stopped recorder's stream are stopped, nothing is recording, and
\* mediaRecorder, mediaStream and the chunk list are cleared.
C6_StopResetsRecorder ==
  [][last'.op \in {"stopRecording.resolved", "stopRecording.rejected"} =>
       /\ ~streams'[recorders[last'.recorder].stream]
       /\ ~isRecording'
       /\ mediaRecorder' = 0
       /\ mediaStream' = 0
       /\ recordedChunks' = <<>>]_vars

\* C7 as stated: cancelRecording throws nothing in any state; after it nothing
\* is recording, every track is stopped and the chunk list is empty; in the
\* idle state it changes nothing.
RecorderIdle == mediaRecorder = 0 /\ mediaStream = 0 /\ recordedChunks = <<>>

C7_CancelFromAnyState ==
  [][last'.op = "cancelRecording" =>
       /\ last'.err = NoError
       /\ ~isRecording'
       /\ \A st \in DOMAIN streams' : ~streams'[st]
       /\ recordedChunks' = <<>>
       /\ RecorderIdle => UNCHANGED recVars]_vars

\* C8 as stated: before initialize, each of these operations fails with the
\* not-initialized error and changes nothing.
GuardedOps ==
  {"loadSound", "loadSoundFromURL", "loadBuffer", "setGain", "clearPad",
   "startRecording", "stopRecording", "splitBuffer"}

C8_NotInitializedReported ==
  [][(ctx = 0 /\ last'.op \in GuardedOps) =>
       /\ last'.err = NotInitializedError
       /\ UNCHANGED <<engineVars, padVars, loads, graphs, recVars>>]_vars

\* C9: initialize on an initialized engine creates no context and no master
\* gain and leaves every pad as it was.
C9_InitializeIdempotent ==
  [][(ctx # 0 /\ last'.op = "initialize") =>
       /\ ctx' = ctx
       /\ masterGain' = masterGain
       /\ ctxCount' = ctxCount
       /\ pads' = pads]_vars

C9_Witness ==
  /\ last.op = "initialize"
  /\ ctxCount = 1
  /\ Loaded(Pad(0))
  /\ Pad(0).gain = 2

\* C10: a pad's loaded flag is true exactly when its buffer is present.
C10_LoadedIffBuffer ==
  \A k \in DOMAIN pads : pads[k].loaded <=> (pads[k].buffer # NoBuffer)

C10_Witness ==
  /\ last.op = "clearPad"
  /\ last.err = NoError
  /\ HasPad(0)
  /\ ~Pad(0).loaded
  /\ Pad(0).buffer = NoBuffer

\* the steps of the registry and the loader that C11 speaks of, except resetPad:
\* every pad's gain is in [0, 2]; setGain on an existing pad stores its argument
\* clamped into [0, 2] and with an invalid index changes no pad; a load that
\* installs a buffer and a clear leave the pad's gain at 1
GainSteps ==
  /\ \A k \in DOMAIN pads' : 0 <= pads'[k].gain /\ pads'[k].gain <= 2
  /\ last'.op = "setGain" =>
       \A i \in EditPadArgs, g \in GainArgs :
         SetGain(i, g) =>
           /\ (ValidIndex(i) /\ HasPad(i)) =>
                /\ pads'[i + 1].gain = (IF g < 0 THEN 0 ELSE IF g > 2 THEN 2 ELSE g)
                /\ \A k \in DOMAIN pads : k # i + 1 => pads'[k] = pads[k]
           /\ ~ValidIndex(i) => (pads' = pads /\ last'.err = NoError)
  /\ last'.op = "loadBuffer" =>
       \A i \in EditPadArgs, d \in Durations, n \in BufferNames :
         (ValidIndex(i) /\ HasPad(i) /\ LoadBuffer(i, Buffer(d), n)) => pads'[i + 1].gain = 1
  /\ last'.op = "loadSound.resolved" =>
       \A k \in DOMAIN loads, d \in Durations :
         DecodeResolved(k, d) => pads'[loads[k].pad + 1].gain = 1
  /\ last'.op = "clearPad" =>
       \A i \in EditPadArgs :
         (ValidIndex(i) /\ HasPad(i) /\ ClearPad(i)) => pads'[i + 1].gain = 1
  /\ (last'.op = "clearAll" /\ ClearAll) => \A k \in DOMAIN pads' : pads'[k].gain = 1

\* C11 as stated: the gain steps above, and every resetPad of an existing pad
\* leaves its gain at 1.
C11_GainAfterAnyReset ==
  [][/\ GainSteps
     /\ last'.op = "resetPad" =>
          \A i \in EditPadArgs :
            (ValidIndex(i) /\ HasPad(i) /\ ResetPad(i)) => pads'[i + 1].gain = 1]_vars

\* C11 amended: the gain steps above; resetPad of a loaded pad leaves its gain
\* at 1, and resetPad of a pad that is not loaded leaves the pad, its gain
\* included, as it was.
C11_GainInRange ==
  [][/\ GainSteps
     /\ last'.op = "resetPad" =>
          \A i \in EditPadArgs :
            (ValidIndex(i) /\ HasPad(i) /\ ResetPad(i)) =>
              IF Loaded(Pad(i)) THEN pads'[i + 1].gain = 1 ELSE pads' = pads]_vars

C11_Witness ==
  /\ last.op = "setGain"
  /\ HasPad(0)
  /\ Loaded(Pad(0))
  /\ Pad(0).gain = 2

\* C12: on an initialized engine, loadBuffer(i, b, name) with a valid index
\* throws nothing and leaves pad i with buffer b, loaded, trim (0, b.duration),
\* gain 1 and the given name, whatever it held before; no other pad changes.
C12_LoadBufferInstalls ==
  [][\A i \in EditPadArgs, d \in Durations, n \in BufferNames :
       (last'.op = "loadBuffer" /\ ValidIndex(i) /\ ctx # 0 /\ LoadBuffer(i, Buffer(d), n)) =>
         /\ last'.err = NoError
         /\ pads'[i + 1] = [index |-> i, buffer |-> Buffer(d), name |-> n, loaded |-> TRUE,
                            trimStart |-> 0, trimEnd |-> d, gain |-> 1]
         /\ \A k \in DOMAIN pads : k # i + 1 => pads'[k] = pads[k]
         /\ DOMAIN pads' = DOMAIN pads]_vars

C12_Witness ==
  /\ last = Ran("loadBuffer", NoError)
  /\ Pad(0).buffer = Buffer(MaxDur)
  /\ Pad(0).loaded
  /\ Pad(0).trimStart = 0
  /\ Pad(0).trimEnd = MaxDur
  /\ Pad(0).gain = 1
  /\ Pad(0).name = "kick"

\* what C13 says of loadBuffer, setTrimPoints, setGain and play at an index
\* outside [0, maxPads): loadBuffer throws the invalid-pad-index error, the
\* other three throw nothing, and none of them changes a pad
InvalidIndexSteps ==
  \A i \in InvalidPadArgs :
    /\ \A d \in Durations, n \in BufferNames :
         (last'.op = "loadBuffer" /\ LoadBuffer(i, Buffer(d), n)) =>
           (last'.err = [kind |-> "Invalid pad index"] /\ pads' = pads)
    /\ \A s \in PlayTrimArgs, e \in PlayTrimArgs :
         (last'.op = "setTrimPoints" /\ SetTrimPoints(i, s, e))
           => (last'.err = NoError /\ pads' = pads)
    /\ \A g \in GainArgs :
         (last'.op = "setGain" /\ SetGain(i, g)) => (last'.err = NoError /\ pads' = pads)
    /\ (last'.op = "play" /\ Play(i))
         => (last'.err = NoError /\ pads' = pads /\ graphs' = graphs)

\* C13 as stated: the steps above, and loadSound at such an index always
\* throws the invalid-pad-index error and changes no pad.
C13_InvalidIndexAlways ==
  [][/\ InvalidIndexSteps
     /\ \A i \in InvalidPadArgs :
          (last'.op = "loadSound" /\ LoadSoundCall(1, i, "", FALSE)) =>
            (last'.err = [kind |-> "Invalid pad index"] /\ pads' = pads)]_vars

\* C13 amended: the steps above; loadSound at such an index changes no pad and
\* throws the invalid-pad-index error once the engine is initialized, the
\* not-initialized error before.
C13_InvalidIndexAsymmetry ==
  [][/\ InvalidIndexSteps
     /\ \A i \in InvalidPadArgs :
          (last'.op = "loadSound" /\ LoadSoundCall(1, i, "", FALSE)) =>
            /\ pads' = pads
            /\ loads' = loads
            /\ last'.err = IF ctx # 0 THEN [kind |-> "Invalid pad index"]
                            ELSE [kind |-> "AudioEngine not initialized"]]_vars

C13_Witness ==
  /\ last.op = "loadSound"
  /\ last.err = [kind |-> "Invalid pad index"]
  /\ HasPad(0)
  /\ Loaded(Pad(0))
  /\ Pad(0).trimStart = 1

Clamp(x, lo, hi) == IF x < lo THEN lo ELSE IF x > hi THEN hi ELSE x

\* C15 as stated: setTrimPoints(i, s, e) on a loaded pad stores s clamped into
\* [0, duration] as trimStart and e clamped into [0, duration] as trimEnd, for
\* all s and e; on a pad that is not loaded it changes nothing.
C15_TrimPointsClamped ==
  [][\A i \in EditPadArgs, s \in TrimArgs, e \in TrimArgs :
       (last'.op = "setTrimPoints" /\ ValidIndex(i) /\ HasPad(i) /\ SetTrimPoints(i, s, e)) =>
         IF Loaded(Pad(i))
           THEN /\ pads'[i + 1].trimStart = Clamp(s, 0, Duration(Pad(i).buffer))
                /\ pads'[i + 1].trimEnd = Clamp(e, 0, Duration(Pad(i).buffer))
           ELSE pads' = pads]_vars

\* C16: play(i) on a loaded pad starts a source at the offset trimStart clamped
\* into [0, duration], for clamp(trimEnd) - clamp(trimStart) seconds when that
\* is positive and for 0 seconds otherwise; the length is never negative and
\* offset + length never exceeds the duration, whatever trim pair is stored.
C16_PlayedSpan ==
  [][\A i \in PadArgs :
       (last'.op = "play" /\ PadLoaded(i) /\ Play(i)) =>
         /\ Len(graphs') = Len(graphs) + 1
         /\ LET g == graphs'[Len(graphs')]
                duration == Duration(Pad(i).buffer)
                clampedStart == Clamp(Pad(i).trimStart, 0, duration)
                clampedEnd == Clamp(Pad(i).trimEnd, 0, duration)
            IN /\ g.buffer = Pad(i).buffer
               /\ g.offset = clampedStart
               /\ g.duration = (IF clampedEnd > clampedStart
                                  THEN clampedEnd - clampedStart ELSE 0)
               /\ g.duration >= 0
               /\ g.offset + g.duration <= duration]_vars

C16_Witness ==
  /\ last = [op |-> "play", err |-> NoError, pad |-> 0]
  /\ PadLoaded(0)
  /\ Pad(0).trimStart > Pad(0).trimEnd
  /\ Pad(0).trimStart > Duration(Pad(0).buffer)
  /\ Len(graphs) = 2
  /\ graphs[2].duration = 0
  /\ graphs[2].offset = Duration(Pad(0).buffer)
  /\ graphs[1].duration = 1

\* C17: play(i) before initialize, with an index outside [0, maxPads), or on a
\* pad that is not loaded throws nothing, creates no playback graph and leaves
\* the whole engine state as it was.
C17_PlayNoOp ==
  [][\A i \in PadArgs :
       (last'.op = "play" /\ (ctx = 0 \/ i < 0 \/ i >= 16 \/ ~pads[i + 1].loaded) /\ Play(i)) =>
         /\ last'.err = NoError
         /\ graphs' = graphs
         /\ UNCHANGED <<engineVars, padVars, loads, recVars, preset, progress>>]_vars

C17_Witness ==
  /\ last = [op |-> "play", err |-> NoError, pad |-> 1]
  /\ PadLoaded(0)
  /\ ~PadLoaded(1)
  /\ graphs = <<>>

\* C18: every play of a loaded pad appends one new source / gain pair, fed
\* from that pad's buffer and gain and connected to the master gain; the pairs
\* created before stay as they were, all on the one master gain, and no pad
\* field changes.
C18_PlayOwnsItsGraph ==
  [][\A i \in PadArgs :
       (last'.op = "play" /\ ctx # 0 /\ PadLoaded(i) /\ Play(i)) =>
         /\ Len(graphs') = Len(graphs) + 1
         /\ \A n \in DOMAIN graphs : graphs'[n] = graphs[n]
         /\ graphs'[Len(graphs')].buffer = Pad(i).buffer
         /\ graphs'[Len(graphs')].gain = Pad(i).gain
         /\ \A n \in DOMAIN graphs' : graphs'[n].destination = masterGain
         /\ masterGain' = masterGain
         /\ pads' = pads]_vars

C18_Witness ==
  /\ last.op = "play"
  /\ PadLoaded(0)
  /\ PadLoaded(1)
  /\ Pad(0).buffer # Pad(1).buffer
  /\ Len(graphs) = 2
  /\ graphs[1].buffer = Pad(0).buffer
  /\ graphs[2].buffer = Pad(1).buffer

\* C19 as stated: of the reports one load's callback receives, the completion
\* report included, each has a strictly larger byte count and a strictly larger
\* percentage than the one before it.
C19_ProgressStrictlyIncreasing ==
  \A k \in DOMAIN progress :
    \A n \in 1..(Len(progress[k]) - 1) :
      /\ progress[k][n].bytes < progress[k][n + 1].bytes
      /\ progress[k][n].num * progress[k][n + 1].den
           < progress[k][n + 1].num * progress[k][n].den

\* a report of exactly 100 percent
Complete(report) == report.num = 100 * report.den

\* C20 as stated: when a load given a callback resolves, the pad is installed
\* and the callback has received 100 percent exactly once, as its last report;
\* when a load is rejected its callback has never received 100 percent.
C20_CompletionReportedOnce ==
  [][/\ (last'.op = "loadSound.resolved" /\ loads[last'.load].callback) =>
          LET reports == progress'[last'.load]
          IN /\ pads'[last'.pad + 1].loaded
             /\ pads'[last'.pad + 1].buffer = Buffer(last'.reason)
             /\ Cardinality({n \in DOMAIN reports : Complete(reports[n])}) = 1
             /\ Complete(reports[Len(reports)])
     /\ last'.op \in {"loadSound.rejected", "loadSoundFromURL.rejected"} =>
          \A n \in DOMAIN progress'[last'.load] : ~Complete(progress'[last'.load][n])]_vars

\* ------------------------------------------- the segment detector and splitter
\* samples a recording holds after its quiet lead-in
MaxSamples == 4
\* the quiet samples a recording may open with
LeadIns == {0, 13}
\* the context's sample rate, at which decodeAudioData delivers its buffers
SampleRates == {44100}
\* sample values in hundredths of full scale
Amplitudes == {-7, 0, 2}
\* silenceThreshold in hundredths: 0, and the default 0.02
ThresholdArgs == {0, 2}
\* minSilenceDuration, in sample periods
DurationArgs == 0..2
\* minSoundDuration, in sample periods
SoundDurationArgs == 0..1

Abs(x) == IF x < 0 THEN -x ELSE x

RECURSIVE Reverse(_)
Reverse(s) == IF s = <<>> THEN <<>> ELSE Append(Reverse(Tail(s)), Head(s))

\* an AudioBuffer: its identity, its sample rate and one sample array per channel
AudioBuffer(id, sampleRate, channels) ==
  [id |-> id, sampleRate |-> sampleRate, channels |-> channels]

Silence(n) == [k \in 1..n |-> 0]

\* the recordings analysed: mono, or stereo with a second channel that differs
\* from the first
RecordedBuffers ==
  { AudioBuffer(1, rate, IF stereo THEN <<Silence(lead) \o data, Reverse(data) \o Silence(lead)>>
                                     ELSE <<Silence(lead) \o data>>) :
      rate \in SampleRates, lead \in LeadIns, stereo \in BOOLEAN,
      data \in UNION {[1..n -> Amplitudes] : n \in 1..MaxSamples} }

\* the double n / rate, kept as the quotient it rounds
Seconds(n, rate) == [samples |-> n, rate |-> rate]

RECURSIVE Log2Floor(_)
Log2Floor(i) == IF i < 2 THEN 0 ELSE 1 + Log2Floor(i \div 2)

\* the least j with i * 2^j >= r
RECURSIVE ShiftsToReach(_, _)
ShiftsToReach(i, r) == IF i >= r THEN 0 ELSE 1 + ShiftsToReach(2 * i, r)

\* binary long division: the remainder and the last quotient bit after the
\* given number of further bits
RECURSIVE DivideBits(_, _, _, _)
DivideBits(rem, d, bit, steps) ==
  IF steps = 0 THEN <<rem, bit>>
  ELSE IF 2 * rem >= d THEN DivideBits(2 * rem - d, d, 1, steps - 1)
                       ELSE DivideBits(2 * rem, d, 0, steps - 1)

\* IEEE-754 double arithmetic, round to nearest even, 53-bit significand:
\* the sign of ((i / r) * r) - i for integers 0 <= i, 0 < r
RoundTripError(i, r) ==
  IF i = 0 THEN 0
  ELSE LET up    == IF i >= r THEN Log2Floor(i \div r) ELSE 0
           down  == IF i >= r THEN 0 ELSE ShiftsToReach(i, r)
           n0    == i * (2 ^ down)
           d0    == r * (2 ^ up)
           q     == DivideBits(n0 - d0, d0, 1, 52)
           rem   == q[1]
           roundUp == 2 * rem > d0 \/ (2 * rem = d0 /\ q[2] = 1)
           \* (i / r) * r - i, in units of 2^(-52 - down)
           s     == IF roundUp THEN d0 - rem ELSE -rem
           \* the spacing of the doubles above i, in the same units
           ulp   == (2 ^ Log2Floor(i)) * (2 ^ down)
           below == IF i = 2 ^ Log2Floor(i) THEN 4 ELSE 2
       IN IF s > 0 /\ 2 * s > ulp THEN 1
          ELSE IF s < 0 /\ below * (-s) > ulp THEN -1
          ELSE 0

\* the longest recording in samples
MaxLength == MaxSamples + CHOOSE lead \in LeadIns : \A other \in LeadIns : other <= lead

\* tabulated once for the sample counts and rates that occur
RoundTripErrors ==
  [rate \in SampleRates |->
     [i \in 0..MaxLength |-> RoundTripError(i, rate)]]

\* the double t * rate for t = n / rate: n, or the double just below (sgn -1)
\* or just above it (sgn 1)
Times(t, rate) == [n |-> t.samples, sgn |-> RoundTripErrors[rate][t.samples]]

\* Math.floor of such a product
Floor(p) == IF p.sgn < 0 THEN p.n - 1 ELSE p.n

\* k >= p for an integer k and such a product p
AtLeast(k, p) == k > p.n \/ (k = p.n /\ p.sgn <= 0)

Segment(startSample, endSample, rate) ==
  [start |-> Seconds(startSample, rate), end |-> Seconds(endSample, rate)]

\* the scan's locals before the first sample
ScanStart == [isInSound |-> FALSE, soundStart |-> 0, silenceStart |-> 0, segments |-> <<>>]

\* a scan that ends a region at the quiet sample that closes it
ScanStepEndsAtGap(st, i, sample, silenceThreshold, minSilenceSamples, minSoundSamples, rate) ==
  IF Abs(sample) > silenceThreshold
    THEN [st EXCEPT !.isInSound = TRUE,
                    !.soundStart = IF st.isInSound THEN @ ELSE i,
                    !.silenceStart = i]
    ELSE IF st.isInSound /\ AtLeast(i - st.silenceStart, minSilenceSamples)
      THEN [st EXCEPT !.segments = IF AtLeast(i - st.soundStart, minSoundSamples)
                                     THEN Append(@, Segment(st.soundStart, i, rate))
                                     ELSE @,
                      !.isInSound = FALSE]
      ELSE st

\* a scan that closes a region at its first quiet sample
ScanStepNoGap(st, i, sample, silenceThreshold, minSilenceSamples, minSoundSamples, rate) ==
  IF Abs(sample) > silenceThreshold
    THEN [st EXCEPT !.isInSound = TRUE,
                    !.soundStart = IF st.isInSound THEN @ ELSE i,
                    !.silenceStart = i]
    ELSE IF st.isInSound
      THEN [st EXCEPT !.segments = IF AtLeast(st.silenceStart - st.soundStart, minSoundSamples)
                                     THEN Append(@, Segment(st.soundStart, st.silenceStart, rate))
                                     ELSE @,
                      !.isInSound = FALSE]
      ELSE st

\* one pass of the loop body, on sample i (0-based)
ScanStep(st, i, sample, silenceThreshold, minSilenceSamples, minSoundSamples, rate) ==
  IF Abs(sample) > silenceThreshold
    THEN [st EXCEPT !.isInSound = TRUE,
                    !.soundStart = IF st.isInSound THEN @ ELSE i,
                    !.silenceStart = i]
    ELSE IF st.isInSound /\ AtLeast(i - st.silenceStart, minSilenceSamples)
      THEN [st EXCEPT !.segments = IF AtLeast(st.silenceStart - st.soundStart, minSoundSamples)
                                     THEN Append(@, Segment(st.soundStart, st.silenceStart, rate))
                                     ELSE @,
                      !.isInSound = FALSE]
      ELSE st

\* the loop from sample i on
RECURSIVE Scan(_, _, _, _, _, _, _)
Scan(data, i, st, silenceThreshold, minSilenceSamples, minSoundSamples, rate) ==
  IF i >= Len(data) THEN st
  ELSE Scan(data, i + 1,
            ScanStep(st, i, data[i + 1], silenceThreshold, minSilenceSamples,
                     minSoundSamples, rate),
            silenceThreshold, minSilenceSamples, minSoundSamples, rate)

\* a detector that closes a region at the end of the buffer whether or not
\* one is open
detectClosesUnopened(buffer, silenceThreshold, minSilenceDuration, minSoundDuration) ==
  LET data == buffer.channels[1]
      sampleRate == buffer.sampleRate
      minSoundSamples == Times(minSoundDuration, sampleRate)
      st == Scan(data, 0, ScanStart, silenceThreshold,
                 Times(minSilenceDuration, sampleRate), minSoundSamples, sampleRate)
  IN IF AtLeast(Len(data) - st.soundStart, minSoundSamples)
       THEN Append(st.segments, Segment(st.soundStart, Len(data), sampleRate))
       ELSE st.segments

detectSoundSegments(buffer, silenceThreshold, minSilenceDuration, minSoundDuration) ==
  LET data == buffer.channels[1]
      sampleRate == buffer.sampleRate
      minSoundSamples == Times(minSoundDuration, sampleRate)
      st == Scan(data, 0, ScanStart, silenceThreshold,
                 Times(minSilenceDuration, sampleRate), minSoundSamples, sampleRate)
  IN IF st.isInSound /\ AtLeast(Len(data) - st.soundStart, minSoundSamples)
       THEN Append(st.segments, Segment(st.soundStart, Len(data), sampleRate))
       ELSE st.segments

\* the samples from startSample (0-based) on, length of them
Slice(sourceData, startSample, length) ==
  [i \in 1..length |-> sourceData[startSample + i]]

\* a splitter that also emits buffers for the empty segments
RECURSIVE splitBufferKeepsEmpty(_, _)
splitBufferKeepsEmpty(buffer, segments) ==
  IF segments = <<>> THEN <<>>
  ELSE LET rest == splitBufferKeepsEmpty(buffer, SubSeq(segments, 1, Len(segments) - 1))
           segment == segments[Len(segments)]
           startSample == Floor(Times(segment.start, buffer.sampleRate))
           length == Max(0, Floor(Times(segment.end, buffer.sampleRate)) - startSample)
       IN Append(rest, AudioBuffer(buffer.id + Len(rest) + 1, buffer.sampleRate,
                                   [c \in DOMAIN buffer.channels |->
                                      Slice(buffer.channels[c], startSample, length)]))

\* the loop over the segments; createBuffer returns a buffer that is none of
\* the existing ones
RECURSIVE splitBuffer(_, _)
splitBuffer(buffer, segments) ==
  IF segments = <<>> THEN <<>>
  ELSE LET buffers == splitBuffer(buffer, SubSeq(segments, 1, Len(segments) - 1))
           segment == segments[Len(segments)]
           startSample == Floor(Times(segment.start, buffer.sampleRate))
           endSample == Floor(Times(segment.end, buffer.sampleRate))
           length == endSample - startSample
       IN IF length > 0
            THEN Append(buffers,
                        AudioBuffer(buffer.id + Len(buffers) + 1, buffer.sampleRate,
                                    [channel \in DOMAIN buffer.channels |->
                                       Slice(buffer.channels[channel], startSample, length)]))
            ELSE buffers

\* a call of detectSoundSegments on the recording
DetectSoundSegments(silenceThreshold, minSilenceDuration, minSoundDuration) ==
  /\ recordedBuffer # NoBuffer
  /\ last' = [op |-> "detectSoundSegments", err |-> NoError,
              silenceThreshold |-> silenceThreshold,
              minSilenceDuration |-> minSilenceDuration,
              minSoundDuration |-> minSoundDuration,
              segments |-> detectSoundSegments(recordedBuffer, silenceThreshold,
                                               minSilenceDuration, minSoundDuration)]
  /\ UNCHANGED <<gridVars, engineVars, padVars, loads, graphs, recVars, preset, progress>>

\* a call of splitBuffer on the recording
SplitBuffer(segments) ==
  /\ recordedBuffer # NoBuffer
  /\ IF ctx = 0
       THEN last' = [op |-> "splitBuffer", err |-> NotInitializedError,
                     segments |-> segments, buffers |-> <<>>]
       ELSE last' = [op |-> "splitBuffer", err |-> NoError,
                     segments |-> segments,
                     buffers |-> splitBuffer(recordedBuffer, segments)]
  /\ UNCHANGED <<gridVars, engineVars, padVars, loads, graphs, recVars, preset, progress>>

\* segment lists handed to splitBuffer besides the detector's: within the
\* buffer, also empty, reversed, overlapping and out of order
SegmentArgs(buffer) ==
  LET length == Len(buffer.channels[1])
      rate == buffer.sampleRate
  IN { <<Segment(0, length, rate)>>,
       <<Segment(length, 0, rate)>>,
       <<Segment(0, 1, rate), Segment(0, length, rate)>>,
       <<Segment(1, length, rate), Segment(0, 0, rate), Segment(0, 1, rate)>> }

InitSegments ==
  /\ EngineInit
  /\ recordedBuffer \in RecordedBuffers

NextSegments ==
  \/ Initialize
  \/ \E silenceThreshold \in ThresholdArgs, minSilence \in DurationArgs,
        minSound \in SoundDurationArgs :
       DetectSoundSegments(silenceThreshold,
                           Seconds(minSilence, recordedBuffer.sampleRate),
                           Seconds(minSound, recordedBuffer.sampleRate))
  \/ /\ last.op = "detectSoundSegments"
     /\ SplitBuffer(last.segments)
  \/ \E segments \in SegmentArgs(recordedBuffer) : SplitBuffer(segments)

SpecSegments == InitSegments /\ [][NextSegments]_vars

\* ------------------------------------------ properties of the segment detector
\* the doubles a / rate and b / rate of sample counts a < b are ordered as a and b
Before(t1, t2) == t1.samples < t2.samples
NotAfter(t1, t2) == t1.samples <= t2.samples

\* buffer.duration
BufferDuration(buffer) == Seconds(Len(buffer.channels[1]), buffer.sampleRate)

Detected == last.op = "detectSoundSegments"

\* C21 as stated: every segment detectSoundSegments returns has
\* 0 <= start < end <= buffer duration, for every buffer and every
\* silenceThreshold, minSilenceDuration and minSoundDuration.
C21_SegmentWithinBuffer ==
  Detected =>
    \A n \in DOMAIN last.segments :
      /\ NotAfter(Seconds(0, recordedBuffer.sampleRate), last.segments[n].start)
      /\ Before(last.segments[n].start, last.segments[n].end)
      /\ NotAfter(last.segments[n].end, BufferDuration(recordedBuffer))

Loud(data, silenceThreshold) ==
  {i \in 0..(Len(data) - 1) : Abs(data[i + 1]) > silenceThreshold}

\* data is a quiet samples, b loud ones, c quiet ones and loud ones to its end
TwoTones(data, silenceThreshold, a, b, c) ==
  /\ a + b + c < Len(data)
  /\ Loud(data, silenceThreshold) = (a..(a + b - 1)) \cup ((a + b + c)..(Len(data) - 1))

\* the layouts silence, tone, silence, tone of a buffer: the lengths of the four
Layouts(buffer, silenceThreshold) ==
  LET data == buffer.channels[1]
  IN { <<a, b, c, Len(data) - a - b - c>> : <<a, b, c>> \in
         { t \in (1..Len(data)) \X (1..MaxSamples) \X (1..MaxSamples) :
             TwoTones(data, silenceThreshold, t[1], t[2], t[3]) } }

\* k sample periods last at least t seconds (to within the rounding of t)
Lasts(k, t) == k >= t.samples

\* the length of a segment in sample periods
SegmentSamples(segment) == segment.end.samples - segment.start.samples

\* C22 as stated: for a buffer laid out as silence, tone, silence, tone (each
\* silence at least minSilenceDuration long, each tone at least
\* minSoundDuration long and above the threshold) detectSoundSegments returns
\* exactly two segments, each as long as its tone within one sample, and
\* splitBuffer on those segments returns two buffers whose samples are the
\* corresponding slices of the source's channels.
C22_TwoTonesTwoSegments ==
  /\ Detected =>
       \A layout \in Layouts(recordedBuffer, last.silenceThreshold) :
         ( /\ Lasts(layout[1], last.minSilenceDuration)
           /\ Lasts(layout[3], last.minSilenceDuration)
           /\ Lasts(layout[2], last.minSoundDuration)
           /\ Lasts(layout[4], last.minSoundDuration) )
         => /\ Len(last.segments) = 2
            /\ Abs(SegmentSamples(last.segments[1]) - layout[2]) <= 1
            /\ Abs(SegmentSamples(last.segments[2]) - layout[4]) <= 1
  /\ (last.op = "splitBuffer" /\ last.err = NoError /\ Len(last.segments) = 2) =>
       \A silenceThreshold \in ThresholdArgs, minSilence \in DurationArgs,
          minSound \in SoundDurationArgs :
         \A layout \in Layouts(recordedBuffer, silenceThreshold) :
           ( /\ layout[1] >= minSilence /\ layout[3] >= minSilence
             /\ layout[2] >= minSound /\ layout[4] >= minSound
             /\ last.segments =
                  detectSoundSegments(recordedBuffer, silenceThreshold,
                                      Seconds(minSilence, recordedBuffer.sampleRate),
                                      Seconds(minSound, recordedBuffer.sampleRate)) )
           => /\ Len(last.buffers) = 2
              /\ \A n \in 1..2 : \A channel \in DOMAIN recordedBuffer.channels :
                   \E from \in 0..MaxLength :
                     /\ Abs(from - last.segments[n].start.samples) <= 1
                     /\ last.buffers[n].channels[channel] =
                          Slice(recordedBuffer.channels[channel], from,
                                Len(last.buffers[n].channels[channel]))

\* the sample range splitBuffer is documented to copy for a segment
StartSample(buffer, segment) == Floor(Times(segment.start, buffer.sampleRate))
EndSample(buffer, segment) == Floor(Times(segment.end, buffer.sampleRate))

\* the segments of a list that yield a buffer, as indices into the list
RECURSIVE Kept(_, _, _)
Kept(buffer, segments, n) ==
  IF n > Len(segments) THEN <<>>
  ELSE IF EndSample(buffer, segments[n]) - StartSample(buffer, segments[n]) > 0
         THEN <<n>> \o Kept(buffer, segments, n + 1)
         ELSE Kept(buffer, segments, n + 1)

SplitDone == last.op = "splitBuffer" /\ last.err = NoError

\* C23: on an initialized engine splitBuffer(buffer, segments) returns, in the
\* order of the segments, one buffer per segment whose length
\* floor(end * rate) - floor(start * rate) is positive and none for the others;
\* each has that length, the source's channel count and sample rate and in
\* every channel output[k] = source[floor(start * rate) + k]; the buffers
\* returned are distinct from the source and from each other.
C23_SplitCopiesRanges ==
  SplitDone =>
    LET kept == Kept(recordedBuffer, last.segments, 1)
    IN /\ Len(last.buffers) = Len(kept)
       /\ \A n \in DOMAIN kept :
            LET segment == last.segments[kept[n]]
                output == last.buffers[n]
                length == EndSample(recordedBuffer, segment) - StartSample(recordedBuffer, segment)
            IN /\ output.sampleRate = recordedBuffer.sampleRate
               /\ Len(output.channels) = Len(recordedBuffer.channels)
               /\ \A channel \in DOMAIN output.channels :
                    /\ Len(output.channels[channel]) = length
                    /\ \A k \in 0..(length - 1) :
                         output.channels[channel][k + 1] =
                           recordedBuffer.channels[channel][StartSample(recordedBuffer, segment) + k + 1]
               /\ output.id # recordedBuffer.id
               /\ \A m \in DOMAIN last.buffers : m # n => last.buffers[m].id # output.id

\* splitBuffer has returned two buffers for three segments, one of them empty,
\* from a stereo recording whose channels differ
C23_Witness ==
  /\ SplitDone
  /\ Len(recordedBuffer.channels) = 2
  /\ Len(last.segments) = 3
  /\ Len(last.buffers) = 2
  /\ recordedBuffer.channels[1] # recordedBuffer.channels[2]

\* C24: detectSoundSegments returns no segment for a buffer in which no sample
\* of the first channel has an absolute amplitude above silenceThreshold.
C24_SilenceYieldsNothing ==
  (Detected /\ Loud(recordedBuffer.channels[1], last.silenceThreshold) = {}) =>
    last.segments = <<>>

\* the detector has run on a buffer with non-zero samples, none of them
\* above the threshold
C24_Witness ==
  /\ Detected
  /\ Loud(recordedBuffer.channels[1], last.silenceThreshold) = {}
  /\ \E i \in DOMAIN recordedBuffer.channels[1] : recordedBuffer.channels[1][i] # 0
  /\ Len(recordedBuffer.channels[1]) = MaxLength
  /\ last.segments = <<>>

\* the scan as stated, for the loud samples of a channel: the first loud
\* sample after p, or the length of the data when there is none
NextLoud(loud, length, p) ==
  IF \E a \in loud : a > p
    THEN CHOOSE a \in loud : a > p /\ \A b \in loud : b > p => a <= b
    ELSE length

\* the region whose last loud sample is p closes before position q: at some
\* quiet sample before q the gap since p has reached minSilenceSamples
ClosesBefore(p, q, minSilenceSamples) ==
  \E i \in (p + 1)..(q - 1) : AtLeast(i - p, minSilenceSamples)

\* the loud samples at which a region opens
RegionStarts(loud, length, minSilenceSamples) ==
  {a \in loud : \A p \in loud :
     (p < a /\ NextLoud(loud, length, p) = a) => ClosesBefore(p, a, minSilenceSamples)}

\* the last loud sample of the region that opens at a
RegionLast(loud, length, minSilenceSamples, a) ==
  CHOOSE p \in loud :
    /\ p >= a
    /\ \A q \in loud : (a <= q /\ q < p) =>
         ~ClosesBefore(q, NextLoud(loud, length, q), minSilenceSamples)
    /\ \/ ClosesBefore(p, NextLoud(loud, length, p), minSilenceSamples)
       \/ NextLoud(loud, length, p) = length

\* the segments the stated scan emits
StatedSegments(buffer, silenceThreshold, minSilenceDuration, minSoundDuration) ==
  LET data == buffer.channels[1]
      length == Len(data)
      rate == buffer.sampleRate
      loud == Loud(data, silenceThreshold)
      minSilenceSamples == Times(minSilenceDuration, rate)
      minSoundSamples == Times(minSoundDuration, rate)
      closed == { <<a, RegionLast(loud, length, minSilenceSamples, a)>> :
                    a \in RegionStarts(loud, length, minSilenceSamples) }
  IN { Segment(r[1], r[2], rate) :
         r \in { c \in closed :
                   /\ ClosesBefore(c[2], NextLoud(loud, length, c[2]), minSilenceSamples)
                   /\ AtLeast(c[2] - c[1], minSoundSamples) } }
     \cup
     { Segment(r[1], length, rate) :
         r \in { c \in closed :
                   /\ ~ClosesBefore(c[2], NextLoud(loud, length, c[2]), minSilenceSamples)
                   /\ AtLeast(length - c[1], minSoundSamples) } }

\* C25: detectSoundSegments returns, in order of time, exactly the segments of
\* the stated scan: a region opens at the first sample above the threshold,
\* stays open across quiet gaps shorter than minSilenceDuration worth of
\* samples, closes at its last loud sample as soon as the gap since that sample
\* reaches minSilenceDuration worth of samples and is emitted if and only if
\* end - start meets minSoundDuration; a region open at the end of the buffer
\* is closed at the buffer end under the same test.
C25_ScanAsStated ==
  Detected =>
    /\ {last.segments[n] : n \in DOMAIN last.segments}
         = StatedSegments(recordedBuffer, last.silenceThreshold,
                          last.minSilenceDuration, last.minSoundDuration)
    /\ \A n \in DOMAIN last.segments : \A m \in DOMAIN last.segments :
         n < m => Before(last.segments[n].start, last.segments[m].start)

\* the detector has closed a region at its last loud sample, one sample period
\* of silence after it, emitted it, and closed a second region at the end of
\* the buffer
C25_Witness ==
  /\ Detected
  /\ last.silenceThreshold = 2
  /\ last.minSilenceDuration.samples = 1
  /\ last.minSoundDuration.samples = 1
  /\ \E lead \in LeadIns :
       /\ lead > 0
       /\ recordedBuffer.channels[1] = Silence(lead) \o <<-7, -7, 2, -7>>
       /\ last.segments = <<Segment(lead, lead + 1, recordedBuffer.sampleRate),
                            Segment(lead + 3, lead + 4, recordedBuffer.sampleRate)>>

\* C26 as stated: for every region detectSoundSegments closes because of
\* silence, the sample range [floor(start * rate), floor(end * rate)) that
\* splitBuffer copies for the emitted segment contains every sample of the
\* region that is above the threshold, the last one included, and the length
\* held against minSoundDuration counts that last sample.
C26_LastLoudSampleKept ==
  Detected =>
    LET data == recordedBuffer.channels[1]
        length == Len(data)
        rate == recordedBuffer.sampleRate
        loud == Loud(data, last.silenceThreshold)
        minSilenceSamples == Times(last.minSilenceDuration, rate)
    IN /\ \A n \in DOMAIN last.segments :
            last.segments[n].end.samples < length =>
              \A i \in loud :
                (last.segments[n].start.samples <= i /\ i <= last.segments[n].end.samples) =>
                  /\ StartSample(recordedBuffer, last.segments[n]) <= i
                  /\ i < EndSample(recordedBuffer, last.segments[n])
       /\ \A a \in RegionStarts(loud, length, minSilenceSamples) :
            LET p == RegionLast(loud, length, minSilenceSamples, a)
            IN ( /\ ClosesBefore(p, NextLoud(loud, length, p), minSilenceSamples)
                 /\ AtLeast(p - a + 1, Times(last.minSoundDuration, rate)) )
               => \E n \in DOMAIN last.segments : last.segments[n].start.samples = a

\* C27: the segments detectSoundSegments returns are in strictly increasing
\* order of time and pairwise disjoint: each starts after the end of the one
\* before it, by minSilenceDuration and at least one sample period more (which
\* covers the rounding of the divisions by the sample rate), and the sample
\* ranges splitBuffer copies for them share no sample.
C27_SegmentsOrderedDisjoint ==
  Detected =>
    \A n \in DOMAIN last.segments : \A m \in DOMAIN last.segments :
      n < m =>
        /\ Before(last.segments[n].start, last.segments[m].start)
        /\ Before(last.segments[n].end, last.segments[m].start)
        /\ Lasts(last.segments[m].start.samples - last.segments[n].end.samples - 1,
                 last.minSilenceDuration)
        /\ EndSample(recordedBuffer, last.segments[n])
             <= StartSample(recordedBuffer, last.segments[m])

\* the detector has returned two segments that one sample of silence
\* separates, for a minSilenceDuration of one sample period
C27_Witness ==
  /\ Detected
  /\ last.silenceThreshold = 0
  /\ last.minSilenceDuration.samples = 1
  /\ last.minSoundDuration.samples = 0
  /\ recordedBuffer.channels[1] = <<2, -7, 0, 2>>
  /\ last.segments = <<Segment(0, 1, recordedBuffer.sampleRate),
                       Segment(3, 4, recordedBuffer.sampleRate)>>

\* the recorder under a caller that starts a capture only when no start is
\* waiting and either the engine holds no recorder or a stopRecording is at its
\* blob read or decode
StopAwaiting == \E r \in DOMAIN recorders : recorders[r].pc = "decode"

NextRestart ==
  \/ Initialize
  \/ /\ pendingStarts = 0
     /\ mediaRecorder = 0 \/ StopAwaiting
     /\ StartRecordingCall
  \/ PermissionDenied
  \/ \E supported \in BOOLEAN : PermissionGranted(supported)
  \/ \E r \in DOMAIN recorders, size \in {0, 1} : DataAvailable(r, size)
  \/ \E throws \in BOOLEAN : StopRecordingCall(throws)
  \/ \E r \in DOMAIN recorders : StopEvent(r)
  \/ \E r \in DOMAIN recorders : StopDecodeResolved(r)
  \/ \E r \in DOMAIN recorders, e \in DecodeErrors : StopDecodeRejected(r, e)

SpecRestart == Init /\ [][NextRestart]_vars

\* ------------------------------------------------ properties of the recorder
\* C28 as stated: when a stopRecording settles while the engine holds a
\* capture that a later startRecording began during that stop's blob read or
\* decode, the new capture stays the engine's: isRecording() is still true,
\* the new session's chunks are kept, and mediaRecorder and mediaStream still
\* refer to it, so that a later stopRecording stops it and its tracks.
C28_RestartSurvivesEarlierStop ==
  [][( /\ last'.op \in {"stopRecording.resolved", "stopRecording.rejected"}
       /\ mediaRecorder # 0
       /\ mediaRecorder # last'.recorder
       /\ recorders[mediaRecorder].state = "recording" )
     => /\ isRecording'
        /\ mediaRecorder' = mediaRecorder
        /\ mediaStream' = mediaStream
        /\ recordedChunks' = recordedChunks]_vars

\* C29 as stated: when cancelRecording has been called while a startRecording
\* waits for the microphone permission, then once that startRecording has
\* completed no capture is running: the tracks of the stream it acquired are
\* stopped, no MediaRecorder is recording and isRecording() is false.
C29_CancelDuringPermission ==
  [][( /\ last.op = "cancelRecording"
       /\ pendingStarts > 0
       /\ last'.op = "startRecording.resolved" )
     => /\ \A st \in DOMAIN streams' : ~streams'[st]
        /\ \A r \in DOMAIN recorders' : recorders'[r].state # "recording"
        /\ ~isRecording']_vars

\* ------------------------------------------------------ PadsGrid.loadPreset
\* buildSampleUrl: the base URL, then the sample's file
SampleUrl(stem) == << <<"presets", "">>, <<stem, "wav">> >>

\* the presets the parent component may select, and their samples' URLs
GridPresets == {"A", "B"}
GridSamples(p) ==
  IF p = "A" THEN <<SampleUrl("a1"), SampleUrl("a2")>>
             ELSE <<SampleUrl("b1"), SampleUrl("b2")>>

\* Math.min(samples.length, 16)
TotalSamples(p) == Min(Len(GridSamples(p)), 16)

\* the effect runs loadPreset(p) for the preset selected: call c uses load slot
\* c. The call initializes the engine if needed (the continuation after that
\* await runs before any other event), clears the pads and runs up to its
\* await of the first sample's loadSoundFromURL. A preset is selected first,
\* or while an earlier call still awaits a sample.
LoadPreset(p) ==
  /\ Len(presetLoads) < MaxLoads
  /\ presetLoads = <<>> \/ \E c \in DOMAIN presetLoads : presetLoads[c].pc = "sample"
  /\ IF ctx # 0
       THEN UNCHANGED <<ctx, masterGain, ctxCount>>
       ELSE /\ ctxCount' = ctxCount + 1
            /\ ctx' = ctxCount + 1
            /\ masterGain' = ctxCount + 1
  /\ pads' = ClearFrom(IF ctx # 0 THEN pads ELSE initializePads, 0)
  /\ trimCall' = [i \in 0..(maxPads - 1) |-> FALSE]
  /\ LET c == Len(presetLoads) + 1
     IN /\ presetLoads' = Append(presetLoads, [preset |-> p, i |-> 0, pc |-> "sample"])
        /\ loads' = [loads EXCEPT ![c] =
               [pc |-> "fetch", pad |-> 0, url |-> GridSamples(p)[1], callback |-> TRUE]]
        /\ progress' = [progress EXCEPT ![c] = <<>>]
  /\ last' = Ran("loadPreset", NoError)
  /\ UNCHANGED <<recordedBuffer, graphs, recVars, preset>>

\* the load that call c awaits has just settled and the call has not continued
SampleSettled(c) ==
  /\ c \in DOMAIN presetLoads
  /\ presetLoads[c].pc = "sample"
  /\ "load" \in DOMAIN last
  /\ last.load = c

\* the loop after a sample's load resolved or was caught: the next sample's
\* loadSoundFromURL up to its await, or the end of the call
LoadPresetContinue(c) ==
  /\ SampleSettled(c)
  /\ LET p == presetLoads[c].preset
         i == presetLoads[c].i + 1
     IN IF i < TotalSamples(p)
          THEN /\ presetLoads' = [presetLoads EXCEPT ![c].i = i]
               /\ loads' = [loads EXCEPT ![c] =
                      [pc |-> "fetch", pad |-> i, url |-> GridSamples(p)[i + 1],
                       callback |-> TRUE]]
               /\ progress' = [progress EXCEPT ![c] = <<>>]
          ELSE /\ presetLoads' = [presetLoads EXCEPT ![c].pc = "done"]
               /\ UNCHANGED <<loads, progress>>
  /\ last' = [op |-> "loadPreset.sample", err |-> last.err, call |-> c]
  /\ UNCHANGED <<recordedBuffer, engineVars, padVars, graphs, recVars, preset>>

\* a call continues in the microtask right after its load settles
NoGridContinuation == ~\E c \in DOMAIN presetLoads : SampleSettled(c)

NextGrid ==
  \/ \E p \in GridPresets : NoGridContinuation /\ LoadPreset(p)
  \/ \E c \in DOMAIN presetLoads : LoadPresetContinue(c)
  \/ \E k \in 1..MaxLoads, st \in Statuses : NoGridContinuation /\ FetchResponse(k, st, 0)
  \/ \E k \in 1..MaxLoads, n \in 1..MaxBytes : NoGridContinuation /\ ReadChunk(k, n)
  \/ \E k \in 1..MaxLoads : NoGridContinuation /\ ReadDone(k)
  \/ \E k \in 1..MaxLoads, d \in Durations : NoGridContinuation /\ DecodeResolved(k, d)
  \/ \E k \in 1..MaxLoads, e \in DecodeErrors : NoGridContinuation /\ DecodeRejected(k, e)

SpecGrid == Init /\ [][NextGrid]_vars

\* C30 as stated: when a preset was selected while loadPreset for an earlier
\* one still awaited a sample, then once every loadPreset call has finished
\* each loaded pad holds the sample of the preset selected last that belongs
\* at its position; no pad holds a sample of the earlier preset.
C30_LastPresetWins ==
  ( /\ Len(presetLoads) >= 2
    /\ \A c \in DOMAIN presetLoads : presetLoads[c].pc = "done" )
  => LET p == presetLoads[Len(presetLoads)].preset
     IN \A i \in 0..(maxPads - 1) :
          Loaded(Pad(i)) =>
            /\ i < TotalSamples(p)
            /\ Pad(i).name = FileName(GridSamples(p)[i + 1])
====
